---- MODULE Spec2Model ----
(***************************************************************************)
(* The client-side data layer of the photo gallery front end:              *)
(*   - useApi, the generic fetch hook            (hooks/useApi.ts)         *)
(*   - ApiClient.requestWithRetry                (services/apiClient.ts)   *)
(*   - useImagePreloader, the bounded preloader  (hooks/useImagePreloader) *)
(*   - usePaginatedData, the paginated loader    (hooks/useApi.ts)         *)
(*   - CacheService, the expiring cache          (services/cacheService.ts)*)
(*   - useInfiniteScroll, the scroll trigger     (hooks, part_000)         *)
(*   - useRetry, the manual retry helper         (hooks/useErrorHandler.ts)*)
(* Each component has its own variables and its own specification; the     *)
(* variables of the other components stay at their initial values.         *)
(*                                                                         *)
(* JavaScript runs one task at a time: an action is one synchronous run of *)
(* a handler up to its next await, or one settlement of a promise together *)
(* with the continuation that follows it.                                  *)
(***************************************************************************)
EXTENDS Integers, Sequences, FiniteSets, TLC

VARIABLES
    \* ---- useApi ----
    state,          \* the hook's state {data, loading, error}
    calls,          \* one entry per started fetchData attempt, in start order
    \* ---- ApiClient.requestWithRetry ----
    pc,             \* where the call is: idle, fetching, sleeping, returned, raised
    retries,        \* the call's retries value
    attempt,        \* the loop index
    fetches,        \* number of network attempts started
    lastError,      \* the variable lastError
    responses,      \* what each settled attempt ended in, in order
    sleeps,         \* the delays slept so far, in order
    requestInterceptors, \* the array requestInterceptors
    finalConfig,    \* the call's variable finalConfig
    interceptorRuns,\* the request interceptors the call has run, in order
    dispatched,     \* the config each attempt passed to requestWithTimeout
    registeredAtCall, \* requestInterceptors as it was when the call started
    \* ---- useImagePreloader ----
    maxConcurrent,  \* options.maxConcurrent
    priority,       \* options.priority
    imgLoading,     \* img.loading of the Image created last: "eager", or
                    \* "auto" when preloadImage left it alone
    preloadedImages,\* the state Map: key -> {loaded, error}
    renderedImages, \* preloadedImages as the last render saw it: what the
                    \* startPreloading closure of that render reads
    isLoading,      \* the state isLoading
    loadingQueue,   \* loadingQueue.current
    activeLoads,    \* activeLoads.current
    loads,          \* key -> number of preloadImage(key) promises not yet settled
    issued,         \* key -> number of preloadImage(key) calls made so far
    rescheduled,    \* keys pushed on the queue after a load of theirs had settled
    scheduleCalls,  \* number of startPreloading calls made so far
    \* ---- usePaginatedData ----
    allData,        \* the accumulated items, each stood for by its id
    currentPage,
    hasNextPage,
    loading,
    error,
    total,
    renderedPage,   \* hasNextPage, loading and currentPage as the last render
                    \* saw them: what the loadMore closure of that render reads
    pending,        \* the fetchFunction calls not yet settled
    fetchCount,     \* number of fetchFunction calls made so far
    lastSettled,    \* the fetch that settled last: how it ended, the page it
                    \* brought, the items before and after it settled
    refreshed,      \* "pending" from a refresh() until its reload settles,
                    \* "loaded" after that; "none" before any refresh and once
                    \* a fetch has failed or loadMore has issued one since
    \* ---- CacheService ----
    now,            \* Date.now()
    memoryCache,    \* the Map memoryCache
    localStorage,   \* the prefixed keys of window.localStorage
    sessionStorage, \* the prefixed keys of window.sessionStorage
    cleanupInterval,\* whether the constructor's interval is still set
    written,        \* per backend and key, the set() whose entry it holds
    lastSet,        \* per backend and key, the last set() addressed to it
                    \* with no delete or clear of the key since
    lastOp,         \* the call made last, what it returned and, for a get,
                    \* the history of the key it read
    opCount,        \* number of calls made so far
    destroyCalls,   \* number of destroy() calls made so far
    \* ---- useInfiniteScroll ----
    scrollMounted,  \* "no" before the first commit, "yes", "gone" after unmount
    isFetching,     \* the state isFetching
    scrollHasNextPage, \* the argument hasNextPage of the latest render
    enabled,        \* options.enabled of the latest render
    refClosure,     \* what the lastElementRef of the last commit closed over
    observer,       \* observer.current: whether it observes the node, and the
                    \* isFetching and hasNextPage its callback closed over
    fetchesInFlight,\* number of fetchMore() promises not yet settled
    invocations,    \* number of fetchMore() calls made so far
    \* ---- useRetry ----
    retryPhase,     \* where the retry() call is: idle, attempting, sleeping,
                    \* returned, raised
    retryOptions,   \* the options of the render whose retry was called
    isRetrying,     \* the state isRetrying
    retryCount,     \* the state retryCount
    currentRetryCount, \* the local currentRetryCount
    retryOutcomes,  \* how each fn() of the call settled, in order
    retryDelays,    \* the delays slept so far, in order
    retryResult,    \* what the call returned or raised
    resetDuring,    \* whether resetRetry() ran while the call was in progress
    retryCalls      \* number of retry() calls made so far

apiVars    == <<state, calls>>
clientVars == <<pc, retries, attempt, fetches, lastError, responses, sleeps,
                requestInterceptors, finalConfig, interceptorRuns, dispatched,
                registeredAtCall>>
preVars    == <<maxConcurrent, priority, imgLoading, preloadedImages, renderedImages, isLoading,
                loadingQueue, activeLoads, loads, issued, rescheduled, scheduleCalls>>
pageVars   == <<allData, currentPage, hasNextPage, loading, error, total,
                renderedPage, pending, fetchCount, lastSettled, refreshed>>
cacheVars  == <<now, memoryCache, localStorage, sessionStorage,
                cleanupInterval, written, lastSet, lastOp, opCount, destroyCalls>>
scrollVars == <<scrollMounted, isFetching, scrollHasNextPage, enabled,
                refClosure, observer, fetchesInFlight, invocations>>
retryVars  == <<retryPhase, retryOptions, isRetrying, retryCount,
                currentRetryCount, retryOutcomes, retryDelays, retryResult,
                resetDuring, retryCalls>>
vars       == <<apiVars, clientVars, preVars, pageVars, cacheVars, scrollVars,
                retryVars>>

notApi    == <<clientVars, preVars, pageVars, cacheVars, scrollVars,
               retryVars>>
notClient == <<apiVars, preVars, pageVars, cacheVars, scrollVars,
               retryVars>>
notPre    == <<apiVars, clientVars, pageVars, cacheVars, scrollVars,
               retryVars>>
notPage   == <<apiVars, clientVars, preVars, cacheVars, scrollVars,
               retryVars>>
notCache  == <<apiVars, clientVars, preVars, pageVars, scrollVars,
               retryVars>>
notScroll == <<apiVars, clientVars, preVars, pageVars, cacheVars,
               retryVars>>
notRetry  == <<apiVars, clientVars, preVars, pageVars, cacheVars, scrollVars>>

Null == "null"

(***************************************************************************)
(* useApi                                                                  *)
(***************************************************************************)

\* Most fetchData attempts started in one run.
MaxAttempts == 3

\* What apiCall() can resolve to. usePerson resolves to null without an id.
DataValues == {"d1", "d2", Null}

\* What apiCall() can reject with: an Error with a message, or another value.
Rejections == {[isError |-> TRUE, message |-> "Network down"],
               [isError |-> TRUE, message |-> "HTTP 500"],
               [isError |-> FALSE, message |-> "thrown string"]}

\* error instanceof Error ? error.message : 'An error occurred'
errorMessage(e) == IF e.isError THEN e.message ELSE "An error occurred"

InFlight == {i \in DOMAIN calls : calls[i].status = "inflight"}

InitApi ==
    /\ state = [data |-> Null, loading |-> TRUE, error |-> Null]
    /\ calls = <<>>

\* fetchData up to its await: the mount effect, a dependency change or refetch.
fetchData ==
    /\ Len(calls) < MaxAttempts
    /\ state' = [state EXCEPT !.loading = TRUE, !.error = Null]
    /\ calls' = Append(calls, [status |-> "inflight", data |-> Null, error |-> Null])
    /\ UNCHANGED notApi

\* The state an attempt writes when apiCall() resolves to data.
resolvedState(data) == [data |-> data, loading |-> FALSE, error |-> Null]

\* A catch block that stores the message and leaves loading as it is.
rejectedStateLoading(e) == [state EXCEPT !.data = Null, !.error = errorMessage(e)]

\* The state an attempt writes when apiCall() rejects with e.
rejectedState(e) == [data |-> Null, loading |-> FALSE, error |-> errorMessage(e)]

\* apiCall() of attempt i resolves: the continuation after the await.
fetchResolved(i, data) ==
    /\ i \in InFlight
    /\ state' = resolvedState(data)
    /\ calls' = [calls EXCEPT ![i] = [status |-> "settled", data |-> state'.data,
                                      error |-> state'.error]]
    /\ UNCHANGED notApi

\* apiCall() of attempt i rejects: the catch block.
fetchRejected(i, e) ==
    /\ i \in InFlight
    /\ state' = rejectedState(e)
    /\ calls' = [calls EXCEPT ![i] = [status |-> "settled", data |-> state'.data,
                                      error |-> state'.error]]
    /\ UNCHANGED notApi

clearError ==
    /\ state.error # Null
    /\ state' = [state EXCEPT !.error = Null]
    /\ UNCHANGED <<calls, notApi>>

NextApi ==
    \/ fetchData
    \/ \E i \in 1..MaxAttempts, d \in DataValues : fetchResolved(i, d)
    \/ \E i \in 1..MaxAttempts, e \in Rejections : fetchRejected(i, e)
    \/ clearError

(***************************************************************************)
(* ApiClient.requestWithRetry                                              *)
(***************************************************************************)

\* Largest retries value a call is configured with.
MaxRetries == 3

\* ApiClientConfig.retryDelay
RetryDelay == 1000

NoError == [name |-> "none", message |-> "", isError |-> TRUE]

Status4xx == {404}
Status5xx == {503}

\* The error body of a response that is not ok: not JSON, the JSON text null,
\* JSON of another kind without a detail, or JSON with a detail message.
Bodies == {"unparseable", "null", "nodetail", "detail", "detailClientError"}

statusText(status) == IF status = 404 THEN "HTTP 404: Not Found"
                      ELSE "HTTP 503: Service Unavailable"

\* What reading a property of null throws.
NullTypeError ==
    [name |-> "TypeError",
     message |-> "Cannot read properties of null (reading 'detail')",
     isError |-> TRUE]

\* errorData.detail: response.json(), or the synthesized message when the
\* body does not parse. "" stands for a missing or empty detail. errorData
\* is null when the body is the JSON text null, and reading its detail throws.
errorDetail(status, body) ==
    CASE body = "unparseable"       -> [throws |-> FALSE, detail |-> statusText(status)]
      [] body = "null"              -> [throws |-> TRUE, detail |-> ""]
      [] body = "nodetail"          -> [throws |-> FALSE, detail |-> ""]
      [] body = "detail"            -> [throws |-> FALSE, detail |-> "Person not found"]
      [] body = "detailClientError" ->
             [throws |-> FALSE, detail |-> "Client error: rejected upstream"]

\* What the block for a response that is not ok throws: the Error built from
\* the detail, or the TypeError of reading it.
responseError(status, body) ==
    LET read == errorDetail(status, body) IN
    IF read.throws THEN NullTypeError
    ELSE [name |-> "Error",
          message |-> IF read.detail # "" THEN read.detail
                      ELSE IF status >= 400 /\ status < 500
                           THEN "Client error occurred"
                      ELSE "Server error occurred",
          isError |-> TRUE]

\* fetch() rejects: the network failed, or the timeout timer aborted the call.
\* Both are instances of Error (a DOMException inherits from Error).
NetworkError == [name |-> "TypeError", message |-> "Failed to fetch", isError |-> TRUE]
AbortError   == [name |-> "AbortError", message |-> "The operation was aborted",
                 isError |-> TRUE]

\* The bodies of a 2xx response of content type JSON that do not parse: the
\* empty body and a short text.
UnparseableTexts == {"", "Client error"}

\* response.json() rejects: the body of a response of content type JSON does
\* not parse. The message quotes a short body.
SyntaxError(text) ==
    [name |-> "SyntaxError",
     message |-> IF text = "" THEN "Unexpected end of JSON input"
                 ELSE "Failed to execute 'json' on 'Response': Unexpected token 'C', \"Client error\" is not valid JSON",
     isError |-> TRUE]

\* error instanceof Error ? error : new Error('Unknown error')
asError(e) == IF e.isError THEN e
              ELSE [name |-> "Error", message |-> "Unknown error", isError |-> TRUE]

\* The error an attempt that ended in resp throws into the catch block.
thrownBy(resp) ==
    CASE resp.kind = "http"    -> responseError(resp.status, resp.body)
      [] resp.kind = "network" -> NetworkError
      [] resp.kind = "timeout" -> AbortError
      [] resp.kind = "ok"      -> SyntaxError(resp.body)

\* lastError.message.includes('Client error'), over the messages that occur:
\* those of them that contain the text.
includesClientError(message) ==
    message \in {"Client error occurred", "Client error: rejected upstream",
                 SyntaxError("Client error").message}

\* The condition of the catch block under which the error is rethrown at
\* once; noRetryIgnoringAbort is the condition without its AbortError test.
noRetryIgnoringAbort(err) == includesClientError(err.message)
noRetry(err) == err.name = "AbortError" \/ includesClientError(err.message)

\* A backoff that grows by one step per attempt.
linear(n) == n + 1

RECURSIVE pow2(_)
pow2(n) == IF n = 0 THEN 1 ELSE 2 * pow2(n - 1)

\* The request interceptors of the module: the development logger, which
\* returns the config it is given, and the one that adds the Authorization
\* header when localStorage holds an auth_token.
Interceptors == {"log", "auth"}

\* Most interceptors registered on one client.
MaxInterceptors == 2

\* requestConfig of a get(): what the call was given, without retries and
\* retryDelay.
requestConfig == [method |-> "GET", headers |-> {}]

\* interceptor(config); token tells whether localStorage.getItem('auth_token')
\* gives a token.
intercept(name, config, token) ==
    IF name = "auth" /\ token
    THEN [config EXCEPT !.headers = @ \cup {"Authorization"}]
    ELSE config

\* The loop over requestInterceptors from index i on: the config it ends with
\* and the interceptors it ran.
RECURSIVE runInterceptors(_, _, _, _, _)
runInterceptors(list, i, config, runs, token) ==
    IF i > Len(list) THEN [config |-> config, runs |-> runs]
    ELSE runInterceptors(list, i + 1, intercept(list[i], config, token),
                         Append(runs, list[i]), token)

\* finalConfig.headers = {'Content-Type': 'application/json', ...headers}
withDefaultHeaders(config) ==
    [config EXCEPT !.headers = {"Content-Type"} \cup @]

InitClient ==
    /\ requestInterceptors = <<>>
    /\ finalConfig = requestConfig
    /\ interceptorRuns = <<>>
    /\ dispatched = <<>>
    /\ registeredAtCall = <<>>
    /\ pc = "idle"
    /\ retries = 0
    /\ attempt = 0
    /\ fetches = 0
    /\ lastError = NoError
    /\ responses = <<>>
    /\ sleeps = <<>>

\* addRequestInterceptor(interceptor), at any time.
addRequestInterceptor(name) ==
    /\ Len(requestInterceptors) < MaxInterceptors
    /\ requestInterceptors' = Append(requestInterceptors, name)
    /\ UNCHANGED <<pc, retries, attempt, fetches, lastError, responses, sleeps,
                   finalConfig, interceptorRuns, dispatched, registeredAtCall>>
    /\ UNCHANGED notClient

\* What `throw lastError!` raises while lastError was never assigned.
Undefined == [name |-> "undefined", message |-> "", isError |-> FALSE]

\* requestWithRetry up to the await of the first attempt's fetch; with
\* retries below 0 the loop is skipped and the call raises at once. token
\* tells whether localStorage holds an auth_token during the call.
requestWithRetry(r, token) ==
    /\ pc = "idle"
    /\ retries' = r
    /\ attempt' = 0
    /\ LET ran == runInterceptors(requestInterceptors, 1, requestConfig, <<>>,
                                  token)
       IN  /\ finalConfig' = withDefaultHeaders(ran.config)
           /\ interceptorRuns' = ran.runs
    /\ registeredAtCall' = requestInterceptors
    /\ IF 0 <= r
       THEN /\ pc' = "fetching"
            /\ fetches' = 1
            /\ dispatched' = <<finalConfig'>>
            /\ UNCHANGED lastError
       ELSE /\ pc' = "raised"
            /\ fetches' = 0
            /\ dispatched' = <<>>
            /\ lastError' = Undefined
    /\ UNCHANGED <<responses, sleeps, requestInterceptors>>
    /\ UNCHANGED notClient

\* The catch block for the error err of the attempt that ended in resp.
catch(err, resp) ==
    /\ lastError' = asError(err)
    /\ responses' = Append(responses, resp)
    /\ IF noRetry(asError(err)) \/ attempt = retries
       THEN /\ pc' = "raised"
            /\ UNCHANGED sleeps
       ELSE /\ pc' = "sleeping"
            /\ sleeps' = Append(sleeps, RetryDelay * pow2(attempt))
    /\ UNCHANGED <<retries, attempt, fetches, requestInterceptors, finalConfig,
                   interceptorRuns, dispatched, registeredAtCall>>
    /\ UNCHANGED notClient

\* The attempt's fetch resolves with a 2xx response: the call returns.
respondOk ==
    /\ pc = "fetching"
    /\ pc' = "returned"
    /\ responses' = Append(responses, [kind |-> "ok", status |-> 200, body |-> "json"])
    /\ UNCHANGED <<retries, attempt, fetches, lastError, sleeps,
                   requestInterceptors, finalConfig, interceptorRuns,
                   dispatched, registeredAtCall>>
    /\ UNCHANGED notClient

\* The attempt's fetch resolves with a 2xx response of content type JSON whose
\* body does not parse: the awaited response.json() rejects inside the try
\* block.
respondOkUnparseable(text) ==
    /\ pc = "fetching"
    /\ LET resp == [kind |-> "ok", status |-> 200, body |-> text]
       IN catch(thrownBy(resp), resp)

\* The attempt's fetch resolves with a response that is not ok.
respondError(status, body) ==
    /\ pc = "fetching"
    /\ LET resp == [kind |-> "http", status |-> status, body |-> body]
       IN catch(thrownBy(resp), resp)

\* The attempt's fetch rejects with a transport-level failure.
networkFailure ==
    /\ pc = "fetching"
    /\ LET resp == [kind |-> "network", status |-> 0, body |-> "none"]
       IN catch(thrownBy(resp), resp)

\* The timeout timer fires before fetch settles: controller.abort().
timeoutFires ==
    /\ pc = "fetching"
    /\ LET resp == [kind |-> "timeout", status |-> 0, body |-> "none"]
       IN catch(thrownBy(resp), resp)

\* A retry that runs the request interceptors again before it dispatches.
backoffElapsedRerun ==
    /\ pc = "sleeping"
    /\ pc' = "fetching"
    /\ attempt' = attempt + 1
    /\ fetches' = fetches + 1
    /\ \E token \in BOOLEAN :
          LET ran == runInterceptors(requestInterceptors, 1, requestConfig,
                                     interceptorRuns, token)
          IN  /\ finalConfig' = withDefaultHeaders(ran.config)
              /\ interceptorRuns' = ran.runs
    /\ dispatched' = Append(dispatched, finalConfig')
    /\ UNCHANGED <<retries, lastError, responses, sleeps, requestInterceptors,
                   registeredAtCall>>
    /\ UNCHANGED notClient

\* The backoff sleep ends: the next iteration of the loop starts its fetch.
backoffElapsed ==
    /\ pc = "sleeping"
    /\ pc' = "fetching"
    /\ attempt' = attempt + 1
    /\ fetches' = fetches + 1
    /\ dispatched' = Append(dispatched, finalConfig)
    /\ UNCHANGED <<retries, lastError, responses, sleeps, requestInterceptors,
                   finalConfig, interceptorRuns, registeredAtCall>>
    /\ UNCHANGED notClient

\* The module registers each of its interceptors once.
NextClient ==
    \/ \E name \in Interceptors :
          (\A i \in DOMAIN requestInterceptors : requestInterceptors[i] # name)
          /\ addRequestInterceptor(name)
    \/ \E r \in 0..MaxRetries, token \in BOOLEAN : requestWithRetry(r, token)
    \/ respondOk
    \/ \E text \in UnparseableTexts : respondOkUnparseable(text)
    \/ \E s \in Status4xx \cup Status5xx, b \in Bodies : respondError(s, b)
    \/ networkFailure
    \/ timeoutFires
    \/ backoffElapsed

(***************************************************************************)
(* useImagePreloader                                                       *)
(***************************************************************************)

\* The image sources that can be loaded.
Keys == {"a", "b"}

\* The strings a caller passes as sources: those and the empty string.
Sources == Keys \cup {""}

\* Largest maxConcurrent a hook is created with.
MaxConcurrentBound == 2

\* Most keys in the list of one startPreloading call.
MaxCallLen == 2

\* Most startPreloading calls in one run.
MaxScheduleCalls == 3

RECURSIVE seqsUpTo(_, _)
seqsUpTo(S, n) ==
    IF n = 0 THEN {<<>>}
    ELSE LET shorter == seqsUpTo(S, n - 1)
         IN  shorter \cup {Append(q, x) : q \in shorter, x \in S}

\* The key lists a caller passes to startPreloading.
KeyLists == seqsUpTo(Keys, MaxCallLen) \ {<<>>}

\* Those and three lists with the empty string: alone, before and after a
\* source that can be loaded.
SourceLists == KeyLists \cup {<<"">>, <<"", "a">>, <<"b", "">>}

Range(q) == {q[i] : i \in DOMAIN q}

\* m.set(key, value): what the Map m holds after the call, and with it the
\* copy new Map(m) made of it.
mapSet(m, key, value) ==
    [k \in DOMAIN m \cup {key} |-> IF k = key THEN value ELSE m[k]]

Pending == [loaded |-> FALSE, error |-> FALSE]

\* A key whose load has settled: its status is loaded or error.
Settled(k) ==
    /\ k \in DOMAIN preloadedImages
    /\ preloadedImages[k].loaded \/ preloadedImages[k].error

InitPre ==
    /\ maxConcurrent \in 1..MaxConcurrentBound
    /\ priority \in {"low", "high"}
    /\ imgLoading = "none"
    /\ preloadedImages = <<>>
    /\ renderedImages = <<>>
    /\ isLoading = FALSE
    /\ loadingQueue = <<>>
    /\ activeLoads = {}
    /\ loads = [k \in Keys |-> 0]
    /\ issued = [k \in Keys |-> 0]
    /\ rescheduled = {}
    /\ scheduleCalls = 0

\* The while loop of processQueue, from its condition to the next await or
\* to its exit. started is <<src>> when the loop stops at
\* await preloadImage(src), and <<>> when the loop has ended.
\* whileLoopOffByOne is the loop with <= in place of < in its condition.
RECURSIVE whileLoopOffByOne(_, _)
whileLoopOffByOne(queue, active) ==
    IF Len(queue) > 0 /\ Cardinality(active) <= maxConcurrent
    THEN LET src == Head(queue) IN
         IF src = "" \/ src \in active
         THEN whileLoopOffByOne(Tail(queue), active)
         ELSE [queue |-> Tail(queue), active |-> active \cup {src}, started |-> <<src>>]
    ELSE [queue |-> queue, active |-> active, started |-> <<>>]

\* whileLoopLast is the loop with pop() in place of shift().
RECURSIVE whileLoopLast(_, _)
whileLoopLast(queue, active) ==
    IF Len(queue) > 0 /\ Cardinality(active) < maxConcurrent
    THEN LET src == queue[Len(queue)]
             rest == SubSeq(queue, 1, Len(queue) - 1) IN
         IF src = "" \/ src \in active
         THEN whileLoopLast(rest, active)
         ELSE [queue |-> rest, active |-> active \cup {src}, started |-> <<src>>]
    ELSE [queue |-> queue, active |-> active, started |-> <<>>]

RECURSIVE whileLoop(_, _)
whileLoop(queue, active) ==
    IF Len(queue) > 0 /\ Cardinality(active) < maxConcurrent
    THEN LET src == Head(queue) IN
         \* if (!src || activeLoads.current.has(src)) continue
         IF src = "" \/ src \in active
         THEN whileLoop(Tail(queue), active)
         ELSE [queue |-> Tail(queue), active |-> active \cup {src}, started |-> <<src>>]
    ELSE [queue |-> queue, active |-> active, started |-> <<>>]

\* A processQueue that ends the loading state as soon as the queue is empty.
processQueueQueueOnly(queue, active, unsettled, loadingFlag) ==
    LET r == whileLoop(queue, active) IN
    /\ loadingQueue' = r.queue
    /\ activeLoads' = r.active
    /\ IF r.started # <<>>
       THEN /\ loads' = [unsettled EXCEPT ![r.started[1]] = @ + 1]
            /\ issued' = [issued EXCEPT ![r.started[1]] = @ + 1]
            /\ imgLoading' = IF priority = "high" THEN "eager" ELSE "auto"
            /\ isLoading' = IF r.queue = <<>> THEN FALSE ELSE loadingFlag
       ELSE /\ loads' = unsettled
            /\ UNCHANGED <<issued, imgLoading>>
            /\ isLoading' = IF r.queue = <<>> THEN FALSE ELSE loadingFlag

\* processQueue from the loop condition on, entered with the given queue,
\* active set and unsettled loads, and with isLoading as set so far.
processQueue(queue, active, unsettled, loadingFlag) ==
    LET r == whileLoop(queue, active) IN
    /\ loadingQueue' = r.queue
    /\ activeLoads' = r.active
    /\ IF r.started # <<>>
       THEN /\ loads' = [unsettled EXCEPT ![r.started[1]] = @ + 1]
            /\ issued' = [issued EXCEPT ![r.started[1]] = @ + 1]
            /\ imgLoading' = IF priority = "high" THEN "eager" ELSE "auto"
            /\ isLoading' = loadingFlag
       ELSE /\ loads' = unsettled
            /\ UNCHANGED <<issued, imgLoading>>
            /\ isLoading' = IF r.active = {} /\ r.queue = <<>> THEN FALSE
                            ELSE loadingFlag

\* srcs.filter(src => !preloadedImages.has(src)), on the rendered Map.
newSrcsOf(srcs) == SelectSeq(srcs, LAMBDA src : src \notin DOMAIN renderedImages)

\* The updater of startPreloading: add a pending entry for each new key.
RECURSIVE initializeImages(_, _)
initializeImages(m, srcs) ==
    IF srcs = <<>> THEN m
    ELSE LET src == Head(srcs) IN
         initializeImages(IF src \in DOMAIN m THEN m ELSE mapSet(m, src, Pending),
                          Tail(srcs))

\* startPreloading(srcs), as far as processQueue's first await.
startPreloading(srcs) ==
    /\ scheduleCalls < MaxScheduleCalls
    /\ scheduleCalls' = scheduleCalls + 1
    /\ LET newSrcs == newSrcsOf(srcs) IN
       IF newSrcs = <<>>
       THEN UNCHANGED <<preloadedImages, isLoading, loadingQueue, activeLoads,
                        loads, issued, rescheduled, imgLoading>>
       ELSE /\ preloadedImages' = initializeImages(preloadedImages, newSrcs)
            /\ rescheduled' = rescheduled \cup {k \in Range(newSrcs) : Settled(k)}
            /\ processQueue(loadingQueue \o newSrcs, activeLoads, loads, TRUE)
    /\ UNCHANGED <<maxConcurrent, priority, renderedImages>>
    /\ UNCHANGED notPre

\* A load of src settles: img.onload (ok) or img.onerror, then the finally
\* block and the rest of the processQueue call that awaited it. The updater
\* calls set on the Map it is given. React runs it at the setState call
\* (atOnce) or in the next render; at the call it is given the Map of the
\* last render, which the closures of that render hold, and React does so
\* only while no update of the Map waits for a render.
loadSettles(src, ok, atOnce) ==
    /\ loads[src] > 0
    /\ atOnce => renderedImages = preloadedImages
    /\ preloadedImages' = mapSet(preloadedImages, src,
                                 [loaded |-> ok, error |-> ~ok])
    /\ renderedImages' = IF atOnce
                         THEN mapSet(renderedImages, src,
                                     [loaded |-> ok, error |-> ~ok])
                         ELSE renderedImages
    /\ processQueue(loadingQueue, activeLoads \ {src},
                    [loads EXCEPT ![src] = @ - 1], isLoading)
    /\ UNCHANGED <<maxConcurrent, priority, rescheduled, scheduleCalls>>
    /\ UNCHANGED notPre

\* React renders the component: the new startPreloading closure reads the
\* current Map.
render ==
    /\ renderedImages # preloadedImages
    /\ renderedImages' = preloadedImages
    /\ UNCHANGED <<maxConcurrent, priority, imgLoading, preloadedImages,
                   isLoading, loadingQueue, activeLoads, loads, issued,
                   rescheduled, scheduleCalls>>
    /\ UNCHANGED notPre

NextPre ==
    \/ \E srcs \in KeyLists : startPreloading(srcs)
    \/ \E src \in Keys, ok \in BOOLEAN, atOnce \in BOOLEAN :
          loadSettles(src, ok, atOnce)
    \/ render

(***************************************************************************)
(* usePaginatedData                                                        *)
(***************************************************************************)

\* The ids of the items the server holds.
Ids == {1, 2}

\* Most items in one page of a response.
MaxPageLen == 2

\* Most fetchFunction calls in one run.
MaxFetches == 3

\* The value of total the server reports.
Totals == {5}

\* What fetchFunction can resolve to: any page content, with or without a
\* repeated id.
PageResponses ==
    [data : seqsUpTo(Ids, MaxPageLen), has_next : BOOLEAN, total : Totals]

\* appendAll is the append without its filter.
appendAll(prev, data) == prev \o data

\* [...prev, ...response.data.filter(item => !newIds.has(item.id))]
appendNew(prev, data) ==
    prev \o SelectSeq(data, LAMBDA item : item \notin Range(prev))

InitPage ==
    /\ allData = <<>>
    /\ currentPage = 1
    /\ hasNextPage = FALSE
    /\ loading = FALSE
    /\ error = Null
    /\ total = 0
    /\ renderedPage = [hasNextPage |-> FALSE, loading |-> FALSE, currentPage |-> 1]
    /\ pending = {}
    /\ fetchCount = 0
    /\ lastSettled = [outcome |-> "none", append |-> FALSE, before |-> <<>>,
                      data |-> <<>>, after |-> <<>>]
    /\ refreshed = "none"

\* loadPage(page, append) up to its await.
loadPage(page, append) ==
    /\ loading' = TRUE
    /\ error' = Null
    /\ fetchCount' = fetchCount + 1
    /\ pending' = pending \cup {[id |-> fetchCount + 1, by |-> "loadPage",
                                 page |-> page, append |-> append]}

\* The mount effect: loadPage(1, false).
mount ==
    /\ fetchCount = 0
    /\ loadPage(1, FALSE)
    /\ UNCHANGED <<allData, currentPage, hasNextPage, total, renderedPage,
                   lastSettled, refreshed>>
    /\ UNCHANGED notPage

refresh ==
    /\ fetchCount > 0
    /\ fetchCount < MaxFetches
    /\ allData' = <<>>
    /\ currentPage' = 1
    /\ loadPage(1, FALSE)
    /\ refreshed' = "pending"
    /\ UNCHANGED <<hasNextPage, total, renderedPage, lastSettled>>
    /\ UNCHANGED notPage

\* loadMore(), called on the closure of the last render.
loadMore ==
    /\ fetchCount > 0
    /\ fetchCount < MaxFetches
    /\ IF renderedPage.hasNextPage /\ ~renderedPage.loading
       THEN /\ fetchCount' = fetchCount + 1
            /\ pending' = pending \cup
                   {[id |-> fetchCount + 1, by |-> "loadMore",
                     page |-> renderedPage.currentPage + 1, append |-> TRUE]}
            /\ refreshed' = "none"
       ELSE UNCHANGED <<fetchCount, pending, refreshed>>
    /\ UNCHANGED <<allData, currentPage, hasNextPage, loading, error, total,
                   renderedPage, lastSettled>>
    /\ UNCHANGED notPage

\* The fetch f resolves with response: the rest of loadPage's try block and
\* its finally block, or the then callback of loadMore.
fetchResolves(f, response) ==
    /\ f \in pending
    /\ pending' = pending \ {f}
    /\ allData' = IF f.append THEN appendNew(allData, response.data)
                  ELSE response.data
    /\ currentPage' = f.page
    /\ hasNextPage' = response.has_next
    /\ total' = response.total
    /\ loading' = IF f.by = "loadPage" THEN FALSE ELSE loading
    /\ lastSettled' = [outcome |-> "resolved", append |-> f.append,
                       before |-> allData, data |-> response.data,
                       after |-> allData']
    /\ refreshed' = IF f.id = fetchCount /\ refreshed = "pending"
                    THEN "loaded" ELSE refreshed
    /\ UNCHANGED <<error, renderedPage, fetchCount>>
    /\ UNCHANGED notPage

\* A failure that drops the accumulated items and the page position.
fetchRejectsClearing(f, e) ==
    /\ f \in pending
    /\ pending' = pending \ {f}
    /\ error' = errorMessage(e)
    /\ loading' = IF f.by = "loadPage" THEN FALSE ELSE loading
    /\ allData' = <<>>
    /\ currentPage' = 1
    /\ lastSettled' = [outcome |-> "rejected", append |-> f.append,
                       before |-> allData, data |-> <<>>, after |-> <<>>]
    /\ refreshed' = "none"
    /\ UNCHANGED <<hasNextPage, total, renderedPage, fetchCount>>
    /\ UNCHANGED notPage

\* The fetch f rejects with e: loadPage's catch and finally blocks, or the
\* catch callback of loadMore.
fetchRejects(f, e) ==
    /\ f \in pending
    /\ pending' = pending \ {f}
    /\ error' = errorMessage(e)
    /\ loading' = IF f.by = "loadPage" THEN FALSE ELSE loading
    /\ lastSettled' = [outcome |-> "rejected", append |-> f.append,
                       before |-> allData, data |-> <<>>, after |-> allData]
    /\ refreshed' = "none"
    /\ UNCHANGED <<allData, currentPage, hasNextPage, total, renderedPage, fetchCount>>
    /\ UNCHANGED notPage

\* clearError: () => setError(null)
clearPageError ==
    /\ error # Null
    /\ error' = Null
    /\ UNCHANGED <<allData, currentPage, hasNextPage, loading, total,
                   renderedPage, pending, fetchCount, lastSettled, refreshed>>
    /\ UNCHANGED notPage

\* React renders the component: the new loadMore closure reads the current
\* hasNextPage, loading and currentPage.
renderPage ==
    /\ renderedPage # [hasNextPage |-> hasNextPage, loading |-> loading,
                       currentPage |-> currentPage]
    /\ renderedPage' = [hasNextPage |-> hasNextPage, loading |-> loading,
                        currentPage |-> currentPage]
    /\ UNCHANGED <<allData, currentPage, hasNextPage, loading, error, total,
                   pending, fetchCount, lastSettled, refreshed>>
    /\ UNCHANGED notPage

NextPage ==
    \/ mount
    \/ refresh
    \/ loadMore
    \/ \E f \in pending, response \in PageResponses : fetchResolves(f, response)
    \/ \E f \in pending, e \in Rejections : fetchRejects(f, e)
    \/ clearPageError
    \/ renderPage

(***************************************************************************)
(* CacheService                                                            *)
(***************************************************************************)

CacheKeys == {"k1", "k2"}
\* The value the next set() stores: every call stores a value of its own.
freshData == ToString(opCount + 1)
Backends == {"memory", "localStorage", "sessionStorage"}
Persistent == {"localStorage", "sessionStorage"}

\* The keys callers use with a backend in NextCache: two with the Map, which
\* evicts, one with each persistent backend. NextCacheAllKeys uses both keys
\* with every backend.
keysOf(storage) == IF storage = "memory" THEN CacheKeys ELSE {"k1"}

\* Last value of the clock Date.now().
MaxTime == 2

\* Most calls of the service (the timer's included) in one run.
MaxOps == 3

\* The field maxSize, scaled down to the two keys of the model.
maxSize == 1

\* Numbers as JavaScript and JSON hold them: a finite number, Infinity, or
\* the null that JSON.stringify writes for a number that is not finite.
Num(n) == [type |-> "number", finite |-> TRUE, n |-> n]
Infinity == [type |-> "number", finite |-> FALSE, n |-> 0]
JsonNull == [type |-> "null", finite |-> FALSE, n |-> 0]

\* The ttl options a caller passes: one millisecond, or no expiry.
TTLs == {Num(1), Infinity}

\* x > y for a finite x, as JavaScript compares: null counts as 0, nothing
\* finite exceeds Infinity.
greaterThan(x, y) ==
    IF y.type = "null" THEN x > 0
    ELSE IF y.finite THEN x > y.n
    ELSE FALSE

\* JSON.stringify of a number.
numberToJSON(x) == IF x.finite THEN x ELSE JsonNull

\* What a persistent backend holds under a prefixed key: nothing, the text
\* JSON.stringify made of an item, or text that JSON.parse rejects.
NoEntry == [kind |-> "none"]
Unparseable == [kind |-> "text"]
stringify(item) ==
    [kind |-> "json", item |-> [item EXCEPT !.ttl = numberToJSON(item.ttl)]]
parses(stored) == stored.kind = "json"
parse(stored) == stored.item

EmptyStorage == [k \in CacheKeys |-> NoEntry]

\* The Map memoryCache is a sequence of items in insertion order.
memHas(mem, k) == \E i \in DOMAIN mem : mem[i].key = k
memGet(mem, k) == mem[CHOOSE i \in DOMAIN mem : mem[i].key = k]
memSet(mem, item) ==
    IF memHas(mem, item.key)
    THEN [i \in DOMAIN mem |-> IF mem[i].key = item.key THEN item ELSE mem[i]]
    ELSE Append(mem, item)
memDelete(mem, k) == SelectSeq(mem, LAMBDA item : item.key # k)

\* The history of one backend's key: the set() whose entry it holds now.
NoWrite == [present |-> FALSE, data |-> Null, createdAt |-> 0,
            ttl |-> Num(0), fallback |-> FALSE]
\* What lastOp holds after a call that is not a get, a sweep or a destroy.
NoOp == [op |-> "other", key |-> "", storage |-> "", result |-> Null,
         entry |-> NoWrite]

InitCache ==
    /\ now = 0
    /\ memoryCache = <<>>
    /\ localStorage = EmptyStorage
    /\ sessionStorage = EmptyStorage
    /\ cleanupInterval = TRUE
    /\ written = [b \in Backends |-> [k \in CacheKeys |-> NoWrite]]
    /\ lastSet = [b \in Backends |-> [k \in CacheKeys |-> NoWrite]]
    /\ lastOp = NoOp
    /\ opCount = 0
    /\ destroyCalls = 0

\* isExpired(item) when its Date.now() reads clock.
isExpired(item, clock) == greaterThan(clock - item.timestamp, item.ttl)

\* The forEach of evictOldest: the key of the first item with the least
\* timestamp below oldestTimestamp, '' while none was found.
RECURSIVE oldestFrom(_, _, _, _)
oldestFrom(mem, i, oldestKey, oldestTimestamp) ==
    IF i > Len(mem) THEN oldestKey
    ELSE IF mem[i].timestamp < oldestTimestamp
         THEN oldestFrom(mem, i + 1, mem[i].key, mem[i].timestamp)
         ELSE oldestFrom(mem, i + 1, oldestKey, oldestTimestamp)

\* evictOldest() when its Date.now() reads clock.
evictOldest(mem, clock) ==
    IF Len(mem) <= maxSize THEN mem
    ELSE LET oldestKey == oldestFrom(mem, 1, "", clock)
         IN  \* if (oldestKey): the empty string is falsy
             IF oldestKey # "" THEN memDelete(mem, oldestKey) ELSE mem

\* The sweep of one persistent backend: what fails to parse or is expired
\* goes.
\* cleanup calls isExpired, and with it Date.now(), once per entry: first for
\* the items of the Map in their order, then for the keys of localStorage,
\* then for those of sessionStorage. SweepReads is the number of places in
\* that order.
SweepReads == 3 * Cardinality(CacheKeys)

\* What the read at place p gives when the clock goes on by a millisecond
\* before the read at place from; from = SweepReads + 1 is a clock that
\* stands still during the sweep.
readAt(p, from) == IF p >= from THEN now + 1 ELSE now

\* The orders in which key(i) may give the keys of a persistent backend for
\* i = 0, 1, ...: the order is the browser's choice, so each one is possible.
\* order[k] is the place of key k.
KeyOrders ==
    {order \in [CacheKeys -> 1..Cardinality(CacheKeys)] :
        \A j, k \in CacheKeys : order[j] = order[k] => j = k}

\* st, a persistent backend whose keys are read in the given order at the
\* places after offset.
sweepStorage(st, offset, from, order) ==
    [k \in CacheKeys |->
        IF st[k] = NoEntry THEN NoEntry
        ELSE IF ~parses(st[k]) THEN NoEntry
        ELSE IF isExpired(parse(st[k]), readAt(offset + order[k], from))
             THEN NoEntry
        ELSE st[k]]

\* The forEach over the Map from its i-th item on.
RECURSIVE sweepMemoryFrom(_, _, _)
sweepMemoryFrom(mem, i, from) ==
    IF i > Len(mem) THEN <<>>
    ELSE (IF isExpired(mem[i], readAt(i, from)) THEN <<>> ELSE <<mem[i]>>)
         \o sweepMemoryFrom(mem, i + 1, from)

sweepMemory(mem, from) == sweepMemoryFrom(mem, 1, from)

\* The three backends as one value.
stores ==
    [memory |-> memoryCache, localStorage |-> localStorage,
     sessionStorage |-> sessionStorage]

\* What backend b of s holds under the key.
held(s, b, k) ==
    IF b = "memory"
    THEN (IF memHas(s.memory, k)
          THEN [kind |-> "item", item |-> memGet(s.memory, k)]
          ELSE NoEntry)
    ELSE s[b][k]

\* size(storage).
size(b) ==
    IF b = "memory" THEN Len(memoryCache)
    ELSE Cardinality({k \in CacheKeys : held(stores, b, k) # NoEntry})

\* A delete that always goes to the Map.
deleteInMemory(s, k, storage) == [s EXCEPT !.memory = memDelete(@, k)]

\* delete(key, storage) and clear(storage) on the backends s.
deleteIn(s, k, storage) ==
    IF storage = "memory"
    THEN [s EXCEPT !.memory = memDelete(@, k)]
    ELSE [s EXCEPT ![storage] = [@ EXCEPT ![k] = NoEntry]]

clearIn(s, storage) ==
    [memory |-> IF storage \in {"all", "memory"} THEN <<>> ELSE s.memory,
     localStorage |-> IF storage \in {"all", "localStorage"}
                      THEN EmptyStorage ELSE s.localStorage,
     sessionStorage |-> IF storage \in {"all", "sessionStorage"}
                        THEN EmptyStorage ELSE s.sessionStorage]

\* A catch branch that drops the item.
fallbackDropped(mem, item) == mem

\* The catch branch of set: the item goes to the Map instead.
fallback(mem, item) == memSet(mem, item)

\* The backends become s; the key k0 of backend b0 now holds the entry of the
\* write w, unless the eviction of that same set has removed it; every other
\* key keeps its history while what it holds is the same.
commit(s, b0, k0, w) ==
    /\ memoryCache' = s.memory
    /\ localStorage' = s.localStorage
    /\ sessionStorage' = s.sessionStorage
    /\ written' = [b \in Backends |-> [k \in CacheKeys |->
                      IF b = b0 /\ k = k0
                      THEN (IF held(s, b, k) = NoEntry THEN NoWrite ELSE w)
                      ELSE IF held(s, b, k) = held(stores, b, k)
                           THEN written[b][k]
                           ELSE NoWrite]]
    /\ opCount' = opCount + 1

\* The milliseconds that can pass between the two readings of Date.now() in
\* one set on the Map: the one that stamps the item and the one of
\* evictOldest.
Later == {0, 1}

\* set(key, data, {ttl, storage}); later is what the clock has advanced by
\* when evictOldest reads it.
set(key, data, ttl, storage, writeOk, later) ==
    /\ opCount < MaxOps
    /\ data = freshData
    /\ storage = "memory" => writeOk
    /\ storage # "memory" => later = 0
    /\ now + later <= MaxTime
    /\ now' = now + later
    /\ LET item == [key |-> key, data |-> data, timestamp |-> now, ttl |-> ttl]
           w == [present |-> TRUE, data |-> data, createdAt |-> now,
                 ttl |-> ttl, fallback |-> ~writeOk]
       IN  /\ IF storage = "memory"
              THEN commit([stores EXCEPT
                              !.memory = evictOldest(memSet(@, item),
                                                     now + later)],
                          "memory", key, w)
              ELSE IF writeOk
              THEN commit([stores EXCEPT
                              ![storage] = [@ EXCEPT ![key] = stringify(item)]],
                          storage, key, w)
              ELSE commit([stores EXCEPT !.memory = fallback(@, item)],
                          "memory", key, w)
           /\ lastSet' = [lastSet EXCEPT ![storage][key] = w]
    /\ lastOp' = NoOp
    /\ UNCHANGED <<cleanupInterval, destroyCalls>>
    /\ UNCHANGED notCache

get(key, storage) ==
    /\ opCount < MaxOps
    /\ LET found == held(stores, storage, key)
           hasItem == IF storage = "memory" THEN found # NoEntry
                      ELSE found # NoEntry /\ parses(found)
           item == IF storage = "memory" THEN found.item ELSE parse(found)
           expired == hasItem /\ isExpired(item, now)
       IN  /\ commit(IF expired THEN deleteIn(stores, key, storage) ELSE stores,
                     "", key, NoWrite)
           /\ lastOp' = [NoOp EXCEPT
                            !.op = "get", !.key = key, !.storage = storage,
                            !.result = IF hasItem /\ ~expired THEN item.data
                                       ELSE Null,
                            !.entry = written[storage][key]]
    /\ UNCHANGED <<now, cleanupInterval, destroyCalls, lastSet>>
    /\ UNCHANGED notCache

delete(key, storage) ==
    /\ opCount < MaxOps
    /\ commit(deleteIn(stores, key, storage), "", key, NoWrite)
    /\ lastSet' = [lastSet EXCEPT ![storage][key] = NoWrite]
    /\ lastOp' = NoOp
    /\ UNCHANGED <<now, cleanupInterval, destroyCalls>>
    /\ UNCHANGED notCache

clear(storage) ==
    /\ opCount < MaxOps
    /\ commit(clearIn(stores, storage), "", "", NoWrite)
    /\ lastSet' = [b \in Backends |-> [k \in CacheKeys |->
                      IF storage \in {"all", b} THEN NoWrite
                      ELSE lastSet[b][k]]]
    /\ lastOp' = NoOp
    /\ UNCHANGED <<now, cleanupInterval, destroyCalls>>
    /\ UNCHANGED notCache

\* The interval's callback.
cleanup(from, lsOrder, ssOrder) ==
    /\ opCount < MaxOps
    /\ cleanupInterval
    /\ readAt(SweepReads, from) <= MaxTime
    /\ now' = readAt(SweepReads, from)
    /\ commit([memory |-> sweepMemory(memoryCache, from),
               localStorage |-> sweepStorage(localStorage,
                                             Cardinality(CacheKeys), from,
                                             lsOrder),
               sessionStorage |-> sweepStorage(sessionStorage,
                                               2 * Cardinality(CacheKeys),
                                               from, ssOrder)],
              "", "", NoWrite)
    /\ lastOp' = [NoOp EXCEPT !.op = "cleanup"]
    /\ UNCHANGED <<cleanupInterval, destroyCalls, lastSet>>
    /\ UNCHANGED notCache

\* An interval that survives clearInterval.
keepInterval(interval) == interval

clearInterval(interval) == FALSE

destroy ==
    /\ opCount < MaxOps
    /\ cleanupInterval' = IF cleanupInterval THEN clearInterval(cleanupInterval)
                          ELSE cleanupInterval
    /\ commit(clearIn(stores, "all"), "", "", NoWrite)
    /\ lastSet' = [b \in Backends |-> [k \in CacheKeys |-> NoWrite]]
    /\ lastOp' = [NoOp EXCEPT !.op = "destroy"]
    /\ destroyCalls' = destroyCalls + 1
    /\ UNCHANGED now
    /\ UNCHANGED notCache

\* A millisecond passes.
tick ==
    /\ now < MaxTime
    /\ now' = now + 1
    /\ lastOp' = NoOp
    /\ UNCHANGED <<memoryCache, localStorage, sessionStorage, cleanupInterval,
                   written, lastSet, opCount, destroyCalls>>
    /\ UNCHANGED notCache

\* Other code of the page leaves text that is no JSON under a prefixed key.
foreignWrite(key, storage) ==
    /\ opCount < MaxOps
    /\ commit([stores EXCEPT ![storage] = [@ EXCEPT ![key] = Unparseable]],
              "", key, NoWrite)
    /\ lastSet' = [lastSet EXCEPT ![storage][key] = NoWrite]
    /\ lastOp' = NoOp
    /\ UNCHANGED <<now, cleanupInterval, destroyCalls>>
    /\ UNCHANGED notCache

NextCache ==
    \/ \E b \in Backends : \E k \in keysOf(b), ttl \in TTLs, writeOk \in BOOLEAN :
          \E later \in Later : set(k, freshData, ttl, b, writeOk, later)
    \/ \E b \in Backends : \E k \in keysOf(b) : get(k, b)
    \/ \E b \in Backends : \E k \in keysOf(b) : delete(k, b)
    \/ \E b \in Backends \cup {"all"} : clear(b)
    \/ \E from \in 1..(SweepReads + 1) : \E lsOrder, ssOrder \in KeyOrders :
          cleanup(from, lsOrder, ssOrder)
    \/ destroy
    \/ tick
    \/ \E b \in Persistent : \E k \in keysOf(b) : foreignWrite(k, b)

\* The same operations with every key in every backend, so that a sweep
\* meets several keys in localStorage and in sessionStorage.
NextCacheAllKeys ==
    \/ \E b \in Backends : \E k \in CacheKeys, ttl \in TTLs, writeOk \in BOOLEAN :
          \E later \in Later : set(k, freshData, ttl, b, writeOk, later)
    \/ \E b \in Backends : \E k \in CacheKeys : get(k, b)
    \/ \E b \in Backends : \E k \in CacheKeys : delete(k, b)
    \/ \E b \in Backends \cup {"all"} : clear(b)
    \/ \E from \in 1..(SweepReads + 1) : \E lsOrder, ssOrder \in KeyOrders :
          cleanup(from, lsOrder, ssOrder)
    \/ destroy
    \/ tick
    \/ \E b \in Persistent : \E k \in CacheKeys : foreignWrite(k, b)

(***************************************************************************)
(* useInfiniteScroll                                                       *)
(***************************************************************************)

\* Most fetchMore invocations in one run.
MaxInvocations == 3

\* observer.current before the first IntersectionObserver is created.
NoObserver ==
    [created |-> FALSE, observing |-> FALSE, isFetching |-> FALSE,
     hasNextPage |-> FALSE]

InitScroll ==
    /\ scrollMounted = "no"
    /\ isFetching = FALSE
    /\ scrollHasNextPage = TRUE
    /\ enabled = TRUE
    /\ refClosure = [isFetching |-> FALSE, hasNextPage |-> TRUE, enabled |-> TRUE]
    /\ observer = NoObserver
    /\ fetchesInFlight = 0
    /\ invocations = 0

\* lastElementRef(node) of the render that saw closure: observer.current
\* afterwards. The new observer's callback keeps that render's isFetching and
\* hasNextPage.
\* lastElementRefAnyway is the callback without its test of enabled.
lastElementRefAnyway(closure, node, current) ==
    IF closure.isFetching \/ ~closure.hasNextPage
    THEN current
    ELSE [created |-> TRUE, observing |-> node,
          isFetching |-> closure.isFetching,
          hasNextPage |-> closure.hasNextPage]

lastElementRef(closure, node, current) ==
    IF closure.isFetching \/ ~closure.enabled \/ ~closure.hasNextPage
    THEN current
    ELSE [created |-> TRUE, observing |-> node,
          isFetching |-> closure.isFetching,
          hasNextPage |-> closure.hasNextPage]

\* observer.current.disconnect()
disconnect(current) == [current EXCEPT !.observing = FALSE]

\* A commit whose lastElementRef differs from the previous one: React calls
\* the previous callback with null, then the new one with the node.
commitRef(closure) ==
    /\ refClosure' = closure
    /\ observer' = IF closure = refClosure THEN observer
                   ELSE lastElementRef(closure, TRUE,
                                       lastElementRef(refClosure, FALSE, observer))

\* The first commit: the sentinel element is attached.
mountScroll ==
    /\ scrollMounted = "no"
    /\ scrollMounted' = "yes"
    /\ refClosure' = [isFetching |-> isFetching,
                      hasNextPage |-> scrollHasNextPage, enabled |-> enabled]
    /\ observer' = lastElementRef(refClosure', TRUE, observer)
    /\ UNCHANGED <<isFetching, scrollHasNextPage, enabled, fetchesInFlight, invocations>>
    /\ UNCHANGED notScroll

\* The re-render that a change of isFetching has scheduled.
renderScroll ==
    /\ scrollMounted = "yes"
    /\ refClosure.isFetching # isFetching
    /\ commitRef([refClosure EXCEPT !.isFetching = isFetching])
    /\ UNCHANGED <<scrollMounted, isFetching, scrollHasNextPage, enabled,
                   fetchesInFlight, invocations>>
    /\ UNCHANGED notScroll

\* The parent renders the hook with other arguments.
propsChange(next, on) ==
    /\ scrollMounted = "yes"
    /\ <<next, on>> # <<scrollHasNextPage, enabled>>
    /\ scrollHasNextPage' = next
    /\ enabled' = on
    /\ commitRef([isFetching |-> isFetching, hasNextPage |-> next, enabled |-> on])
    /\ UNCHANGED <<scrollMounted, isFetching, fetchesInFlight, invocations>>
    /\ UNCHANGED notScroll

\* The IntersectionObserver calls back with entries[0].isIntersecting.
notify(isIntersecting) ==
    /\ observer.observing
    /\ IF isIntersecting /\ observer.hasNextPage /\ ~observer.isFetching
       THEN /\ invocations < MaxInvocations
            /\ isFetching' = TRUE
            /\ fetchesInFlight' = fetchesInFlight + 1
            /\ invocations' = invocations + 1
       ELSE UNCHANGED <<isFetching, fetchesInFlight, invocations>>
    /\ UNCHANGED <<scrollMounted, scrollHasNextPage, enabled, refClosure, observer>>
    /\ UNCHANGED notScroll

\* A fetchMore() promise settles: the finally callback.
fetchMoreSettles ==
    /\ fetchesInFlight > 0
    /\ fetchesInFlight' = fetchesInFlight - 1
    /\ isFetching' = FALSE
    /\ UNCHANGED <<scrollMounted, scrollHasNextPage, enabled, refClosure,
                   observer, invocations>>
    /\ UNCHANGED notScroll

\* setIsFetching(fetching), the setter the hook returns, called by the
\* component that uses the hook.
setIsFetching(fetching) ==
    /\ scrollMounted = "yes"
    /\ fetching # isFetching
    /\ isFetching' = fetching
    /\ UNCHANGED <<scrollMounted, scrollHasNextPage, enabled, refClosure,
                   observer, fetchesInFlight, invocations>>
    /\ UNCHANGED notScroll

\* The component goes: the ref callback runs with null, then the effect's
\* cleanup disconnects.
unmountScroll ==
    /\ scrollMounted = "yes"
    /\ scrollMounted' = "gone"
    /\ observer' = disconnect(lastElementRef(refClosure, FALSE, observer))
    /\ UNCHANGED <<isFetching, scrollHasNextPage, enabled, refClosure,
                   fetchesInFlight, invocations>>
    /\ UNCHANGED notScroll

NextScroll ==
    \/ mountScroll
    \/ renderScroll
    \/ \E next \in BOOLEAN, on \in BOOLEAN : propsChange(next, on)
    \/ \E isIntersecting \in BOOLEAN : notify(isIntersecting)
    \/ fetchMoreSettles
    \/ \E fetching \in BOOLEAN : setIsFetching(fetching)
    \/ unmountScroll

(***************************************************************************)
(* useRetry                                                                *)
(***************************************************************************)

\* Largest maxRetries option a caller passes.
MaxRetriesOption == 2

\* Most retry() calls in one run, one after the other.
MaxRetryCalls == 2

\* The options a caller passes to useRetry.
RetryOptions ==
    [maxRetries : 0..MaxRetriesOption, initialDelay : {1, 3},
     maxDelay : {4, 10}, backoffFactor : {1, 2, 3}]

\* What fn() can resolve to.
RetryValues == {"r1", "r2"}

\* What fn() can reject with: two Errors and a value that is no Error.
RetryFailures ==
    {[name |-> "Error", message |-> "first", isError |-> TRUE],
     [name |-> "Error", message |-> "second", isError |-> TRUE],
     [name |-> "", message |-> "thrown string", isError |-> FALSE]}

\* A catch block that forgets what was thrown.
retryErrorUnknown(e) ==
    [name |-> "Error", message |-> "Unknown error", isError |-> TRUE]

\* error instanceof Error ? error : new Error('Unknown error')
retryError(e) ==
    IF e.isError THEN e
    ELSE [name |-> "Error", message |-> "Unknown error", isError |-> TRUE]

\* Math.pow(b, n) for a natural n.
RECURSIVE power(_, _)
power(b, n) == IF n = 0 THEN 1 ELSE b * power(b, n - 1)

\* Math.min(a, b)
mathMin(a, b) == IF a <= b THEN a ELSE b

\* A delay without the cap.
retryDelayUncapped(o, c) == o.initialDelay * power(o.backoffFactor, c - 1)

\* The delay slept after the failure that made currentRetryCount equal to c.
retryDelay(o, c) ==
    mathMin(o.initialDelay * power(o.backoffFactor, c - 1), o.maxDelay)

InitRetry ==
    /\ retryPhase = "idle"
    /\ retryOptions = [maxRetries |-> 3, initialDelay |-> 1000,
                       maxDelay |-> 10000, backoffFactor |-> 2]
    /\ isRetrying = FALSE
    /\ retryCount = 0
    /\ currentRetryCount = 0
    /\ retryOutcomes = <<>>
    /\ retryDelays = <<>>
    /\ retryResult = [kind |-> "none"]
    /\ resetDuring = FALSE
    /\ retryCalls = 0

\* retry(fn) up to its first await, in a hook rendered with the options o.
retry(o) ==
    /\ retryPhase \in {"idle", "returned", "raised"}
    /\ retryCalls < MaxRetryCalls
    /\ retryCalls' = retryCalls + 1
    /\ retryOutcomes' = <<>>
    /\ retryDelays' = <<>>
    /\ resetDuring' = FALSE
    /\ retryOptions' = o
    /\ currentRetryCount' = 0
    /\ IF 0 <= o.maxRetries
       THEN /\ isRetrying' = TRUE
            /\ retryPhase' = "attempting"
            /\ retryResult' = [kind |-> "none"]
       ELSE \* the loop is skipped: setIsRetrying(false), throw lastError
            /\ isRetrying' = FALSE
            /\ retryPhase' = "raised"
            /\ retryResult' = [kind |-> "undefined"]
    /\ UNCHANGED retryCount
    /\ UNCHANGED notRetry

\* fn() resolves: the rest of the try block.
fnResolves(v) ==
    /\ retryPhase = "attempting"
    /\ retryOutcomes' = Append(retryOutcomes, [kind |-> "resolved", value |-> v])
    /\ isRetrying' = FALSE
    /\ retryCount' = 0
    /\ retryPhase' = "returned"
    /\ retryResult' = [kind |-> "value", value |-> v]
    /\ UNCHANGED <<retryOptions, currentRetryCount, retryDelays, resetDuring,
                   retryCalls>>
    /\ UNCHANGED notRetry

\* fn() rejects: the catch block, up to the sleep or to the throw.
fnRejects(e) ==
    /\ retryPhase = "attempting"
    /\ retryOutcomes' = Append(retryOutcomes, [kind |-> "rejected", value |-> e])
    /\ currentRetryCount' = currentRetryCount + 1
    /\ retryCount' = currentRetryCount'
    /\ IF currentRetryCount' > retryOptions.maxRetries
       THEN /\ isRetrying' = FALSE
            /\ retryPhase' = "raised"
            /\ retryResult' = [kind |-> "error", value |-> retryError(e)]
            /\ UNCHANGED retryDelays
       ELSE /\ retryDelays' = Append(retryDelays,
                                     retryDelay(retryOptions, currentRetryCount'))
            /\ retryPhase' = "sleeping"
            /\ UNCHANGED <<isRetrying, retryResult>>
    /\ UNCHANGED <<retryOptions, resetDuring, retryCalls>>
    /\ UNCHANGED notRetry

\* The sleep ends: the loop test and the next fn().
retrySleepEnds ==
    /\ retryPhase = "sleeping"
    /\ retryPhase' = "attempting"
    /\ UNCHANGED <<retryOptions, isRetrying, retryCount, currentRetryCount,
                   retryOutcomes, retryDelays, retryResult, resetDuring,
                   retryCalls>>
    /\ UNCHANGED notRetry

\* A reset that also restarts the count of the call in progress.
resetRetryLocals ==
    /\ retryCount' = 0
    /\ isRetrying' = FALSE
    /\ currentRetryCount' = 0
    /\ resetDuring' = (resetDuring \/ retryPhase \in {"attempting", "sleeping"})
    /\ UNCHANGED <<retryPhase, retryOptions, retryOutcomes, retryDelays,
                   retryResult, retryCalls>>
    /\ UNCHANGED notRetry

resetRetry ==
    /\ retryCount' = 0
    /\ isRetrying' = FALSE
    /\ resetDuring' = (resetDuring \/ retryPhase \in {"attempting", "sleeping"})
    /\ UNCHANGED <<retryPhase, retryOptions, currentRetryCount, retryOutcomes,
                   retryDelays, retryResult, retryCalls>>
    /\ UNCHANGED notRetry

NextRetry ==
    \/ \E o \in RetryOptions : retry(o)
    \/ \E v \in RetryValues : fnResolves(v)
    \/ \E e \in RetryFailures : fnRejects(e)
    \/ retrySleepEnds
    \/ resetRetry

(***************************************************************************)
(* Specifications                                                          *)
(***************************************************************************)

Init == InitApi /\ InitClient /\ InitPre /\ InitPage /\ InitCache
        /\ InitScroll /\ InitRetry

\* Init for the specifications that never run the preloader: its option is
\* fixed.
InitIdlePreloader == Init /\ maxConcurrent = 1 /\ priority = "low"

\* Init for a hook created without the priority option.
InitLowPriority == Init /\ priority = "low"

SpecApi    == InitIdlePreloader /\ [][NextApi]_vars
SpecClient == InitIdlePreloader /\ [][NextClient]_vars
SpecPre    == InitLowPriority /\ [][NextPre]_vars

\* Most startPreloading calls in a run of the two specifications below.
MaxLiveCalls == 2

NextPreLive ==
    \/ \E srcs \in SourceLists :
          scheduleCalls < MaxLiveCalls /\ startPreloading(srcs)
    \/ \E src \in Keys, ok \in BOOLEAN, atOnce \in BOOLEAN :
          loadSettles(src, ok, atOnce)
    \/ render

\* The preloader with either priority.
SpecPriority == Init /\ [][NextPreLive]_vars

\* The preloader when every underlying load settles: img.onload or
\* img.onerror fires for every Image that was given a src.
SpecPreLive ==
    InitLowPriority /\ [][NextPreLive]_vars
    /\ WF_vars(\E src \in Keys, ok \in BOOLEAN, atOnce \in BOOLEAN :
                  loadSettles(src, ok, atOnce))
SpecPage   == InitIdlePreloader /\ [][NextPage]_vars
SpecCache  == InitIdlePreloader /\ [][NextCache]_vars
SpecCacheAllKeys == InitIdlePreloader /\ [][NextCacheAllKeys]_vars
SpecScroll == InitIdlePreloader /\ [][NextScroll]_vars
SpecRetry  == InitIdlePreloader /\ [][NextRetry]_vars

\* The two fetch-state hooks. They share no state: a behaviour runs the one
\* or the other.
NextFetchState ==
    \/ fetchCount = 0 /\ NextApi
    \/ calls = <<>> /\ NextPage

SpecFetchState == InitIdlePreloader /\ [][NextFetchState]_vars

(***************************************************************************)
(* Claims about useApi                                                     *)
(***************************************************************************)

\* C1: once every started attempt has settled, the state (data, error) is
\* the outcome of the attempt that was started last, whatever the order in
\* which the attempts settled (error may have been cleared by clearError).
C1_StaleResponseGuard ==
    (Len(calls) >= 2 /\ InFlight = {}) =>
        LET b == calls[Len(calls)]
        IN  /\ state.data = b.data
            /\ state.error \in {b.error, Null}

\* C19: when an attempt settles and leaves no attempt in flight, the state is
\* in exactly one of the two terminal conditions: data, not loading, no
\* error; or no data, not loading, an error. This for every value apiCall()
\* resolves to or rejects with.
C19_TerminalState ==
    [][(calls' # calls /\ InFlight' = {}) =>
          /\ ~state'.loading
          /\ \/ state'.data # Null /\ state'.error = Null
             \/ state'.data = Null /\ state'.error # Null]_vars

(***************************************************************************)
(* Claims about ApiClient.requestWithRetry                                 *)
(***************************************************************************)

Is4xx(resp) == resp.kind = "http" /\ resp.status \in Status4xx
Is5xx(resp) == resp.kind = "http" /\ resp.status \in Status5xx

\* C2: an attempt that ends in a 4xx response, with or without a detail
\* message in its body, is the last one: the call raises at once, without a
\* backoff sleep; a 4xx on the first attempt means exactly one attempt.
C2_ClientFailureNotRetried ==
    \A i \in DOMAIN responses :
        Is4xx(responses[i]) =>
            /\ pc = "raised"
            /\ i = Len(responses)
            /\ fetches = i
            /\ Len(sleeps) = i - 1

\* C3: a call whose attempts all ended in a 5xx response or a transport
\* failure raises only after retries + 1 attempts, and raises the failure of
\* the last attempt.
C3_RetryBound ==
    (/\ pc = "raised"
     /\ \A i \in DOMAIN responses :
            Is5xx(responses[i]) \/ responses[i].kind = "network")
    => /\ fetches = retries + 1
       /\ lastError = thrownBy(responses[Len(responses)])

\* C4: an attempt whose timeout timer fires is the last one, for every
\* retries value: the call raises the abort failure at once, with no
\* further attempt and no backoff sleep after it.
C4_TimeoutTerminal ==
    \A i \in DOMAIN responses :
        responses[i].kind = "timeout" =>
            /\ pc = "raised"
            /\ i = Len(responses)
            /\ fetches = i
            /\ Len(sleeps) = i - 1
            /\ lastError = AbortError

\* A timeout on a retry, with retries left.
C4_Witness ==
    /\ pc = "raised"
    /\ Len(responses) >= 2
    /\ responses[Len(responses)].kind = "timeout"
    /\ attempt < retries

(***************************************************************************)
(* Claims about useImagePreloader. Every state of SpecPre is a suspension  *)
(* boundary: no handler is running.                                        *)
(***************************************************************************)

\* C5: the active set never holds more than maxConcurrent keys.
C5_ActiveBound == Cardinality(activeLoads) <= maxConcurrent

\* The active set is full while keys are still queued.
C5_Witness ==
    /\ Cardinality(activeLoads) = maxConcurrent
    /\ loadingQueue # <<>>
    /\ scheduleCalls >= 2

\* C6: no key is in the active set and in the pending queue together.
C6_ActiveNotQueued == activeLoads \cap Range(loadingQueue) = {}

\* C7: a key that was only ever scheduled before a load of it had settled
\* has had at most one load issued.
C7_OneLoadPerKey ==
    \A k \in Keys : k \notin rescheduled => issued[k] <= 1

\* C8: no two loads of one key are in flight together, and a startPreloading
\* call that names a key whose load has settled issues no load for that key.
C8_NoRefetch ==
    /\ [](\A k \in Keys : loads[k] <= 1)
    /\ [][\A srcs \in KeyLists : \A k \in Range(srcs) :
              (Settled(k) /\ startPreloading(srcs)) => issued'[k] = issued[k]]_vars

(***************************************************************************)
(* Claims about usePaginatedData                                           *)
(***************************************************************************)

\* C9: a loadMore() call made while hasNextPage is false, or while a fetch
\* of loadPage or of an earlier loadMore has not settled, issues no fetch.
C9_LoadMoreSuppressed ==
    [][(loadMore /\ (~hasNextPage \/ pending # {})) => pending' = pending]_vars

\* C10: the accumulated items never hold the same id twice.
C10_UniqueIds ==
    \A i, j \in DOMAIN allData : allData[i] = allData[j] => i = j

\* The entries of page whose id is not in have, in the page's order.
RECURSIVE novelEntries(_, _)
novelEntries(page, have) ==
    IF page = <<>> THEN <<>>
    ELSE (IF Head(page) \in have THEN <<>> ELSE <<Head(page)>>)
         \o novelEntries(Tail(page), have)

\* C11: a fetch that resolves with page P and appends turns items I into I
\* followed by the entries of P whose id is not in I, in P's order; a fetch
\* that resolves without append makes the items equal to P.
C11_AppendNovel ==
    lastSettled.outcome = "resolved" =>
        lastSettled.after =
            IF lastSettled.append
            THEN lastSettled.before
                 \o novelEntries(lastSettled.data, Range(lastSettled.before))
            ELSE lastSettled.data

\* A page that overlaps the items has just been appended: [1] + [1, 2].
C11_Witness ==
    /\ lastSettled.outcome = "resolved"
    /\ lastSettled.append
    /\ lastSettled.before = <<1>>
    /\ lastSettled.data = <<1, 2>>
    /\ lastSettled.after = <<1, 2>>
    /\ allData = <<1, 2>>

(***************************************************************************)
(* Claims about CacheService                                               *)
(***************************************************************************)

\* The entry of the write w is expired: now - createdAt > ttl.
elapsedAt(w, clock) == w.ttl.finite /\ clock - w.createdAt > w.ttl.n
elapsed(w) == elapsedAt(w, now)

\* C12: in every backend, a get of a key that holds the entry of a
\* set(k, v, {ttl}) returns v at every time with now - createdAt <= ttl and
\* null at every time with now - createdAt > ttl.
C12_CacheTTL ==
    (lastOp.op = "get" /\ lastOp.entry.present) =>
        lastOp.result = IF elapsed(lastOp.entry) THEN Null
                        ELSE lastOp.entry.data

\* C13: a get that finds an expired entry removes it from the backend it was
\* addressed to, so that size counts one entry less there, and leaves every
\* other entry of every backend as it was.
C13_LazyEviction ==
    [][\A b \in Backends : \A k \in keysOf(b) :
          (get(k, b) /\ written[b][k].present /\ elapsed(written[b][k])) =>
              /\ held(stores', b, k) = NoEntry
              /\ size(b)' = size(b) - 1
              /\ \A b2 \in Backends, k2 \in CacheKeys :
                     <<b2, k2>> # <<b, k>> =>
                         held(stores', b2, k2) = held(stores, b2, k2)]_vars

\* A get has just found an expired entry in a persistent backend while the
\* Map held an entry under the same key: the first is gone, the second stays.
C13_Witness ==
    /\ lastOp.op = "get"
    /\ lastOp.storage \in Persistent
    /\ lastOp.entry.present
    /\ elapsed(lastOp.entry)
    /\ lastOp.result = Null
    /\ held(stores, lastOp.storage, lastOp.key) = NoEntry
    /\ memHas(memoryCache, lastOp.key)

\* The sequence q without its i-th element.
without(q, i) == [j \in 1..(Len(q) - 1) |-> IF j < i THEN q[j] ELSE q[j + 1]]

\* C14: a set on the Map that brings its entry count to maxSize + 1 removes
\* exactly one entry, one with the smallest createdAt, and keeps all others,
\* whatever the creation timestamps, those equal to the clock value of the
\* insert included.
C14_EvictOldest ==
    [][\A k \in CacheKeys, ttl \in TTLs :
          (/\ \E later \in Later : set(k, freshData, ttl, "memory", TRUE, later)
           /\ Len(memoryCache) = maxSize
           /\ ~memHas(memoryCache, k)) =>
              LET full == Append(memoryCache,
                                 [key |-> k, data |-> freshData,
                                  timestamp |-> now, ttl |-> ttl])
              IN  \E i \in DOMAIN full :
                     /\ \A j \in DOMAIN full :
                            full[i].timestamp <= full[j].timestamp
                     /\ memoryCache' = without(full, i)]_vars

\* C15: a set addressed to a persistent backend whose write fails ends with
\* the item in the Map under the same key, and a get of that key on the
\* memory backend returns the value until the ttl has elapsed.
C15_WriteFallback ==
    /\ [][\A b \in Persistent : \A k \in keysOf(b), ttl \in TTLs :
             set(k, freshData, ttl, b, FALSE, 0) =>
                 /\ memHas(memoryCache', k)
                 /\ memGet(memoryCache', k) =
                        [key |-> k, data |-> freshData, timestamp |-> now,
                         ttl |-> ttl]]_vars
    /\ []((/\ lastOp.op = "get"
           /\ lastOp.storage = "memory"
           /\ lastOp.entry.present
           /\ lastOp.entry.fallback
           /\ ~elapsed(lastOp.entry)) => lastOp.result = lastOp.entry.data)

\* A get on the memory backend has returned, a millisecond later, the value
\* of a set whose persistent write had failed.
C15_Witness ==
    /\ lastOp.op = "get"
    /\ lastOp.storage = "memory"
    /\ lastOp.entry.present
    /\ lastOp.entry.fallback
    /\ now > lastOp.entry.createdAt
    /\ lastOp.result = lastOp.entry.data
    /\ lastOp.result # Null

\* C16: a set, get, delete or clear addressed to one backend leaves what the
\* two other backends hold under every key unchanged.
C16_BackendIndependence ==
    [][\A b \in Backends :
          (\/ \E k \in keysOf(b) :
                 \/ \E ttl \in TTLs, writeOk \in BOOLEAN, later \in Later :
                        set(k, freshData, ttl, b, writeOk, later)
                 \/ get(k, b)
                 \/ delete(k, b)
           \/ clear(b)) =>
              \A b2 \in Backends \ {b} : stores'[b2] = stores[b2]]_vars

\* C17: right after a sweep no backend holds a prefixed entry that does not
\* parse or an entry that was expired when the sweep began, and every entry
\* that is not expired when the sweep ends is still there with its value
\* (the clock may go on by a millisecond while the sweep runs, and the
\* persistent backends may give their keys in any order).
C17_Sweep ==
    [][\A from \in 1..(SweepReads + 1) : \A lsOrder, ssOrder \in KeyOrders :
          cleanup(from, lsOrder, ssOrder) =>
              \A b \in Backends, k \in CacheKeys :
                  /\ held(stores', b, k) # Unparseable
                  /\ ~(written'[b][k].present /\ elapsed(written'[b][k]))
                  /\ (written[b][k].present
                      /\ ~elapsedAt(written[b][k], now')) =>
                         held(stores', b, k) = held(stores, b, k)]_vars

Emptied ==
    /\ memoryCache = <<>>
    /\ localStorage = EmptyStorage
    /\ sessionStorage = EmptyStorage

\* C18: after destroy() the sweep never runs again and right after destroy()
\* no backend holds an entry; a second destroy() right after the first
\* changes nothing.
C18_Teardown ==
    /\ [](destroyCalls > 0 => lastOp.op # "cleanup")
    /\ [](lastOp.op = "destroy" => Emptied)
    /\ [][(destroy /\ lastOp.op = "destroy") =>
             (stores' = stores /\ cleanupInterval' = cleanupInterval)]_vars

\* destroy() has just run for the second time.
C18_Witness ==
    /\ destroyCalls = 2
    /\ lastOp.op = "destroy"
    /\ ~cleanupInterval
    /\ Emptied

(***************************************************************************)
(* Claims about useInfiniteScroll                                          *)
(***************************************************************************)

\* C20: while a fetchMore() invocation has not settled no further invocation
\* is made, whatever notifications the observer delivers in the meantime.
C20_SingleFetchMore == fetchesInFlight <= 1

(***************************************************************************)
(* Claims about useRetry                                                   *)
(***************************************************************************)

\* What is true of the attempts of a retry() call whatever it raises: at most
\* maxRetries + 1 attempts, a resolved attempt is the last one and its value
\* is returned, and the call raises only after maxRetries + 1 rejections.
AttemptsBounded ==
    /\ Len(retryOutcomes) <= retryOptions.maxRetries + 1
    /\ \A i \in DOMAIN retryOutcomes :
           retryOutcomes[i].kind = "resolved" =>
               /\ i = Len(retryOutcomes)
               /\ retryPhase = "returned"
               /\ retryResult = [kind |-> "value", value |-> retryOutcomes[i].value]
    /\ retryPhase = "raised" =>
           /\ Len(retryOutcomes) = retryOptions.maxRetries + 1
           /\ \A i \in DOMAIN retryOutcomes : retryOutcomes[i].kind = "rejected"

\* C21: fn is attempted at most maxRetries + 1 times; the call returns the
\* result of the first attempt that resolves, without a further attempt; it
\* raises only after maxRetries + 1 attempts have all failed, and what it
\* raises is the failure of the last attempt.
C21_RetryAttempts ==
    /\ AttemptsBounded
    /\ retryPhase = "raised" =>
           retryResult = [kind |-> "error",
                          value |-> retryOutcomes[Len(retryOutcomes)].value]

\* C21 as amended: what the call raises is the failure of the last attempt
\* when that is an Error, and an Error with the message 'Unknown error' when
\* the last attempt failed with a value that is no Error.
C21_RetryAttemptsAmended ==
    /\ AttemptsBounded
    /\ retryPhase = "raised" =>
           LET last == retryOutcomes[Len(retryOutcomes)].value
           IN  retryResult =
                   [kind |-> "error",
                    value |-> IF last.isError THEN last
                              ELSE [name |-> "Error", message |-> "Unknown error",
                                    isError |-> TRUE]]

\* Three attempts have failed with different Errors and the call has raised the
\* third.
C21_Witness ==
    /\ retryPhase = "raised"
    /\ Len(retryOutcomes) = 3
    /\ retryOutcomes[3].value.isError
    /\ retryOutcomes[1].value # retryOutcomes[3].value
    /\ retryResult.value = retryOutcomes[3].value

\* The failed attempts of the call so far.
Failed == {i \in DOMAIN retryOutcomes : retryOutcomes[i].kind = "rejected"}

\* C28: the delay slept after the k-th failed attempt, k = 1..maxRetries, is
\* min(initialDelay * backoffFactor^(k-1), maxDelay); no delay exceeds
\* maxDelay, and no delay follows the failed attempt after which the call
\* raises.
C28_BackoffDelays ==
    /\ \A k \in DOMAIN retryDelays :
           LET grown == retryOptions.initialDelay
                        * power(retryOptions.backoffFactor, k - 1)
           IN  /\ retryDelays[k] = IF grown < retryOptions.maxDelay THEN grown
                                   ELSE retryOptions.maxDelay
               /\ retryDelays[k] <= retryOptions.maxDelay
    /\ Len(retryDelays) <= retryOptions.maxRetries
    /\ Len(retryDelays) = IF retryPhase = "raised"
                          THEN Cardinality(Failed) - 1
                          ELSE Cardinality(Failed)

\* A call with initialDelay 3, backoffFactor 2 and maxDelay 4 has slept 3, then
\* the capped 4, and has raised after the third failure without a third sleep.
C28_Witness ==
    /\ retryPhase = "raised"
    /\ retryOptions.maxRetries = 2
    /\ retryOptions.initialDelay = 3
    /\ retryOptions.backoffFactor = 2
    /\ retryOptions.maxDelay = 4
    /\ retryDelays = <<3, 4>>
    /\ Cardinality(Failed) = 3

\* C29: resetRetry() called while a retry() call is in progress sets retryCount
\* to 0 and isRetrying to false and leaves the call as it is: its attempts so
\* far, its delays and its position; the call then makes the attempts, sleeps
\* the delays and ends as it does without a reset.
C29_ResetLeavesCall ==
    /\ [][(resetRetry /\ retryPhase \in {"attempting", "sleeping"}) =>
             /\ retryCount' = 0
             /\ ~isRetrying'
             /\ UNCHANGED <<retryPhase, currentRetryCount, retryOutcomes,
                            retryDelays, retryResult>>]_vars
    /\ [](resetDuring =>
             /\ AttemptsBounded
             /\ Len(retryDelays) = IF retryPhase = "raised"
                                   THEN Cardinality(Failed) - 1
                                   ELSE Cardinality(Failed)
             /\ \A k \in DOMAIN retryDelays :
                    retryDelays[k] =
                        LET grown == retryOptions.initialDelay
                                     * power(retryOptions.backoffFactor, k - 1)
                        IN  IF grown < retryOptions.maxDelay THEN grown
                            ELSE retryOptions.maxDelay)

\* A call that was reset while in progress has raised after its three attempts
\* and two sleeps.
C29_Witness ==
    /\ resetDuring
    /\ retryPhase = "raised"
    /\ retryOptions.maxRetries = 2
    /\ Len(retryOutcomes) = 3
    /\ Len(retryDelays) = 2
    /\ retryCount = 0

\* C30: in every state where an attempt of useApi has started and has not
\* settled, loading is true, also when attempts overlap and an older one
\* settles while a newer one is in flight.
C30_LoadingWhileInFlight == InFlight # {} => state.loading

\* C23: a loadMore or loadPage whose fetch fails sets the error field and
\* changes none of items, currentPage, hasNextPage and total: not when the
\* fetch is issued by loadMore and not when it fails.
C23_FailureKeepsItems ==
    [][/\ (pending' \subseteq pending /\ pending' # pending
            /\ lastSettled'.outcome = "rejected") =>
               /\ error' # Null
               /\ UNCHANGED <<allData, currentPage, hasNextPage, total>>
       /\ (\E f \in pending' \ pending : f.by = "loadMore") =>
               UNCHANGED <<allData, currentPage, hasNextPage, total, error>>]_vars

\* The fetch of a loadMore has failed: the error is set and the items, the
\* page and hasNextPage of the first page are still there.
C23_Witness ==
    /\ lastSettled.outcome = "rejected"
    /\ lastSettled.append
    /\ error = "HTTP 500"
    /\ allData = <<1, 2>>
    /\ currentPage = 1
    /\ hasNextPage
    /\ pending = {}

\* C22: once refresh() has been called and every load in flight has settled
\* successfully, with no further call since, the load that settled last has
\* replaced the items by a page 1 it fetched, so that items are the content
\* of page 1, and currentPage is 1: for every order in which the loads
\* settle, a loadMore in flight at the refresh included.
C22_RefreshWins ==
    (refreshed = "loaded" /\ pending = {}) =>
        /\ ~lastSettled.append
        /\ allData = lastSettled.data
        /\ currentPage = 1

\* C24: a rejection of the injected fetch function ends the operation that
\* awaited it, useApi's fetchData or usePaginatedData's loadPage, without
\* raising: the operation is settled, the error field holds the message of
\* the rejection and loading is false.
C24_RejectionBecomesState ==
    [][/\ \A i \in DOMAIN calls : \A e \in Rejections :
              fetchRejected(i, e) =>
                  /\ calls'[i].status = "settled"
                  /\ state'.error = IF e.isError THEN e.message
                                    ELSE "An error occurred"
                  /\ ~state'.loading
       /\ \A f \in pending : \A e \in Rejections :
              (f.by = "loadPage" /\ fetchRejects(f, e)) =>
                  /\ f \notin pending'
                  /\ error' = IF e.isError THEN e.message
                              ELSE "An error occurred"
                  /\ ~loading']_vars

\* The only attempt of useApi has ended by a rejection with a value that is
\* no Error: it is settled, the fallback message is the error and loading is
\* false.
C24_Witness ==
    /\ Len(calls) = 1
    /\ calls[1].status = "settled"
    /\ state = [data |-> Null, loading |-> FALSE, error |-> "An error occurred"]

\* C25: isLoading is set to false only in a step that leaves the queue and
\* the active set empty, and whenever isLoading is false the queue is empty
\* and no key is active.
C25_IdleMeansDrained ==
    /\ [](~isLoading => (loadingQueue = <<>> /\ activeLoads = {}))
    /\ [][(isLoading /\ ~isLoading') =>
             (loadingQueue' = <<>> /\ activeLoads' = {})]_vars

\* Both keys were loaded with maxConcurrent = 1 and isLoading is false
\* again.
C25_Witness ==
    /\ maxConcurrent = 1
    /\ \A k \in Keys : issued[k] > 0
    /\ ~isLoading
    /\ loadingQueue = <<>>
    /\ activeLoads = {}

\* C27: the k-th sleep of a call, the one between the failed attempt with
\* index k - 1 and the next attempt, lasts retryDelay * 2^(k-1); every failed
\* attempt but the last is followed by one sleep, and no sleep follows the
\* last attempt or a success.
C27_ClientBackoff ==
    /\ \A k \in DOMAIN sleeps : sleeps[k] = RetryDelay * power(2, k - 1)
    /\ Len(sleeps) = IF pc \in {"raised", "returned"} THEN Len(responses) - 1
                     ELSE Len(responses)

\* A call with retries = 3 has failed four times and raised: it slept
\* 1000, 2000 and 4000 ms and not after the fourth failure.
C27_Witness ==
    /\ pc = "raised"
    /\ retries = 3
    /\ fetches = 4
    /\ sleeps = <<1000, 2000, 4000>>

C39_RetryFlags ==
    /\ retryPhase \in {"attempting", "sleeping"} =>
           /\ isRetrying
           /\ retryCount = Cardinality(Failed)
    /\ retryPhase \in {"returned", "raised"} => ~isRetrying
    /\ retryPhase = "returned" => retryCount = 0
    /\ retryCount <= retryOptions.maxRetries + 1

\* C34: every step that invokes fetchMore is taken while hasNextPage is true
\* and the hook is enabled, so none after hasNextPage has become false; and
\* the step in which an invocation settles leaves isFetching false.
C34_TriggerGuard ==
    /\ [][invocations' > invocations => (scrollHasNextPage /\ enabled)]_vars
    /\ [][fetchesInFlight' < fetchesInFlight => ~isFetching']_vars

\* The first invocation has settled and a later notification has started the
\* second one.
C34_Witness ==
    /\ invocations = 2
    /\ fetchesInFlight = 1
    /\ isFetching
    /\ scrollHasNextPage
    /\ enabled

\* C31: at every suspension boundary at which keys are queued, the active
\* set holds maxConcurrent keys: a startPreloading call with more than
\* maxConcurrent new keys puts maxConcurrent loads in flight at once.
C31_WorkConserving ==
    loadingQueue # <<>> => Cardinality(activeLoads) = maxConcurrent

\* What a processQueue entered with the queue q and the active set act does
\* when it serves the queue in order: it drops the keys at the front that are
\* active or empty, starts the load of the first key that is neither, and
\* leaves the keys behind it queued in their order.
servedInOrder(q, act) ==
    \E n \in 0..Len(q) :
        /\ loadingQueue' = SubSeq(q, n + 1, Len(q))
        /\ \A m \in 1..(n - 1) : q[m] \in act \cup {""}
        /\ {k \in Keys : issued'[k] > issued[k]} =
               IF n > 0 /\ q[n] \notin act \cup {""} THEN {q[n]} ELSE {}
        /\ n < Len(q) => \/ n > 0 /\ q[n] \notin act \cup {""}
                         \/ Cardinality(act) >= maxConcurrent

\* C33: loads are started in the order in which their keys were appended to
\* the queue, and with priority high as with priority low: the order is the
\* same, the active set stays within maxConcurrent, and the option only
\* sets img.loading.
C33_Fifo ==
    /\ [](Cardinality(activeLoads) <= maxConcurrent)
    /\ [](imgLoading \in {"none", IF priority = "high" THEN "eager" ELSE "auto"})
    /\ [][/\ \A srcs \in SourceLists :
                (startPreloading(srcs) /\ newSrcsOf(srcs) # <<>>) =>
                    servedInOrder(loadingQueue \o newSrcsOf(srcs), activeLoads)
           /\ \A src \in Keys : \A ok \in BOOLEAN, atOnce \in BOOLEAN :
                loadSettles(src, ok, atOnce) =>
                    servedInOrder(loadingQueue, activeLoads \ {src})]_vars

\* With priority high and maxConcurrent = 1, one call has appended b and
\* then a: b was loaded first and has settled, a is loading eagerly.
C33_Witness ==
    /\ priority = "high"
    /\ maxConcurrent = 1
    /\ imgLoading = "eager"
    /\ scheduleCalls = 1
    /\ issued = [k \in Keys |-> 1]
    /\ loads = [k \in Keys |-> IF k = "a" THEN 1 ELSE 0]
    /\ activeLoads = {"a"}
    /\ loadingQueue = <<>>

\* C38: a key whose status is loaded or error keeps that status in every
\* later state, and no key is ever loaded and error together.
C38_StatusStable ==
    /\ [](\A k \in DOMAIN preloadedImages :
              ~(preloadedImages[k].loaded /\ preloadedImages[k].error))
    /\ [][\A k \in Keys :
              Settled(k) => preloadedImages'[k] = preloadedImages[k]]_vars

\* C32: when every load settles, every key that startPreloading has taken,
\* whatever string it is, gets a terminal status, loaded or error; a load
\* that fails is recorded as error and the hook goes on; and isLoading
\* becomes false again.
C32_PreloaderLive ==
    /\ \A k \in Sources : (k \in DOMAIN preloadedImages) ~> Settled(k)
    /\ isLoading ~> ~isLoading
    /\ [][\A src \in Keys : \A atOnce \in BOOLEAN :
              loadSettles(src, FALSE, atOnce) =>
                  preloadedImages'[src] = [loaded |-> FALSE, error |-> TRUE]]_vars

\* Both keys were taken by one call, the load of a failed and the load of b
\* succeeded, and the hook is idle again.
C32_Witness ==
    /\ scheduleCalls = 1
    /\ DOMAIN preloadedImages = Keys
    /\ preloadedImages["a"] = [loaded |-> FALSE, error |-> TRUE]
    /\ preloadedImages["b"] = [loaded |-> TRUE, error |-> FALSE]
    /\ ~isLoading
    /\ loadingQueue = <<>>
    /\ activeLoads = {}

\* C35: after every set call, to any backend and with or without a failed
\* persistent write, the Map holds at most maxSize entries.
C35_MemoryCapacity == Len(memoryCache) <= maxSize

\* C36: a get(k, backend) that follows a set(k, v, {ttl, backend}) on the same
\* backend before the ttl has elapsed, with no delete, clear or other set of k
\* on that backend in between, returns v.
C36_ReadYourWrites ==
    (/\ lastOp.op = "get"
     /\ lastSet[lastOp.storage][lastOp.key].present
     /\ ~elapsed(lastSet[lastOp.storage][lastOp.key])) =>
        lastOp.result = lastSet[lastOp.storage][lastOp.key].data

\* C37: a request call makes at most retries + 1 network attempts; an attempt
\* that ended in a 2xx response is the last one, no attempt follows it; and
\* once the attempt with index retries has settled the call has returned or
\* raised.
C37_AttemptBound ==
    /\ fetches <= retries + 1
    /\ \A i \in DOMAIN responses :
           responses[i].kind = "ok" =>
               /\ i = Len(responses)
               /\ fetches = i
    /\ Len(responses) = retries + 1 => pc \in {"returned", "raised"}
====
